---- MODULE Spec2Model ----
(***************************************************************************)
(* Model of the subscription lifecycle of the Maala server:                *)
(*   server/src/models/subscription.ts      the Subscription collection    *)
(*   server/src/services/subscriptionService.ts  SubscriptionService       *)
(*   server/src/routes/subscription.ts      the /subscription router       *)
(*   server/routes/products.ts              requireSubscription middleware *)
(*                                                                         *)
(* Time is counted in hours since 1 January 00:00 of a non-leap year; the  *)
(* service's millisecond clock is sampled at the instants of Instants.     *)
(* Every handler runs to completion as one action (Spec).                  *)
(*                                                                         *)
(* store  the Subscription collection, in insertion order                  *)
(* clock  what new Date() returns                                          *)
(* last   the latest step: the request and the response it got             *)
(*                                                                         *)
(* Specifications:                                                         *)
(*   Spec, FairSpec  the subscription routes, the sweep and the clock      *)
(*   TrialSpec       one trial subscription with the clock running hourly  *)
(*   RaceSpec        renewSubscription's findOne and save, with the sweep  *)
(*                   running in between                                    *)
(*   GeoSpec         calls of server/src/utils/geolocation.ts              *)
(*   SellerSpec      server/src/services/LocalSellerService.ts and         *)
(*                   server/src/routes/localSellers.ts; there `store` is   *)
(*                   the LocalSeller collection                            *)
(*   GateSpec        the requireSubscription middleware, its catch branch  *)
(*                   included                                              *)
(*   ReviewSpec      LocalSellerService.addReview, its findById and save   *)
(*                   interleaved between calls                             *)
(*   RewardSpec      POST /rewards/redeem of server/routes/products.ts,    *)
(*                   its findById and findOneAndUpdate interleaved         *)
(*   ApiSpec         the functions of geolocation.ts that fetch from an    *)
(*                   external service                                      *)
(*   HistorySpec     client/src/store/slices/userSlice.ts                  *)
(*                                                                         *)
(* Not modelled: the createdAt / updatedAt timestamps mongoose maintains,  *)
(* storage failures, and the authenticate middleware (every request comes  *)
(* from an authenticated user).                                            *)
(***************************************************************************)
EXTENDS Integers, Sequences, FiniteSets, TLC

VARIABLES store, clock, last

vars == <<store, clock, last>>

----------------------------------------------------------------------------
(* Bounds of the model *)

\* Largest number of writes that grow the collection (documents created plus
\* payments recorded) the model follows.
MaxWrites == 3
\* Requests that leave the collection as it is (reads, rejected requests) are
\* followed in collections of at most this many such writes.
MaxWatched == 1
\* The trial clock runs until this many hours after the trial's end.
MaxHoursPast == 30
\* Longest list of points handed to the route functions.
MaxRouteLength == 4
\* Largest number of sellers registered.
MaxSellers == 2
\* Largest number of addReview calls on the seller.
MaxReviewCalls == 3

\* Calls of POST /rewards/redeem begun in a behaviour
MaxRedeemCalls == 2
\* Largest number of searches added without emptying the history.
MaxSearches == 52
\* The client's clock runs for this many milliseconds.
MaxMilliseconds == 1

\* The limit on the length of searchHistory.
HistoryLimit == 50

----------------------------------------------------------------------------
(* Calendar: what date-fns addMonths computes *)

HoursPerDay == 24

MonthLengths == <<31, 28, 31, 30, 31, 30, 31, 31, 30, 31, 30, 31>>

\* Number of days of month m, months counted from 0 = January of year 0.
DaysInMonth(m) == MonthLengths[(m % 12) + 1]

\* The months the model's dates can fall in (two years).
MonthRange == 0..23

RECURSIVE DaysBefore(_)
\* Number of days before the first day of month m.
DaysBefore(m) == IF m = 0 THEN 0 ELSE DaysBefore(m - 1) + DaysInMonth(m - 1)

\* DaysBefore, tabulated.
MonthStarts == [m \in 0..24 |-> DaysBefore(m)]

\* Day number (from 0) of the first day of month m.
MonthStart(m) == MonthStarts[m]

\* Date.getMonth (with the year folded in): the month a date falls in.
MonthOf(date) ==
    LET day == date \div HoursPerDay
    IN  CHOOSE m \in MonthRange : MonthStart(m) <= day /\ day < MonthStart(m + 1)

\* Date.getDate, counted from 0.
DayOfMonth(date) == (date \div HoursPerDay) - MonthStart(MonthOf(date))

\* The time of day, which setMonth / setFullYear leave alone.
HourOfDay(date) == date % HoursPerDay

At(day, hour) == day * HoursPerDay + hour

\* date-fns addMonths(date, amount): the same day of the month `amount`
\* months later, or the last day of that month when it is shorter.
addMonths(date, amount) ==
    LET desired == MonthOf(date) + amount
        dayOfMonth == DayOfMonth(date)
        daysInMonth == DaysInMonth(desired)
    IN  IF dayOfMonth + 1 >= daysInMonth
        THEN At(MonthStart(desired) + daysInMonth - 1, HourOfDay(date))
        ELSE At(MonthStart(desired) + dayOfMonth, HourOfDay(date))

\* date-fns isAfter(date, dateToCompare)
isAfter(date, dateToCompare) == date > dateToCompare

\* Math.floor(a / b) for b > 0
Floor(a, b) == a \div b

\* Math.ceil(a / b) for b > 0
Ceil(a, b) == IF a % b = 0 THEN a \div b ELSE (a \div b) + 1

----------------------------------------------------------------------------
(* Inputs *)

\* The authenticated users (req.user.id).
Users == {"u1"}

\* The enum of the schema's `type` path.
SubscriptionTypes == {"seller", "buyer"}

\* What a request can carry as `type`; "" stands for a missing field.
TypeInputs == SubscriptionTypes \cup {"admin", ""}

\* What a request can carry as `amount`; 0 also stands for a missing field.
Amounts == {-1, 0, 1}

\* What a request can carry as `transactionId`; "" also stands for a missing field.
TransactionIds == {"", "tx1"}

\* The instants at which the clock is sampled:
\*   30 Nov 12:00, then 31 Jan 12:00, 28 Feb 12:00 and 28 Feb 13:00 of the
\*   following year.
Instants == { At(333, 12), At(395, 12), At(423, 12), At(423, 13) }

FirstInstant == CHOOSE t \in Instants : \A u \in Instants : t <= u

\* JavaScript's `!v` for a string and for a number.
NotStr(v) == v = ""
NotNum(v) == v = 0

----------------------------------------------------------------------------
(* The Subscription collection *)

\* An optional Date path: <<>> when unset, <<d>> when set to d.
Unset == <<>>
Set(d) == <<d>>

\* Model.findOne(filter), given the positions of the documents that match the
\* filter: the first of them in insertion order; 0 stands for null.
FindOne(hits) ==
    IF hits = {} THEN 0 ELSE CHOOSE i \in hits : \A j \in hits : i <= j

ByUserAndType(userId, type, doc) == doc.userId = userId /\ doc.type = type

RECURSIVE Writes(_)
\* The documents created plus the payments recorded so far.
Writes(coll) ==
    IF coll = <<>> THEN 0
    ELSE 1 + Len(Head(coll).paymentHistory) + Writes(Tail(coll))

----------------------------------------------------------------------------
(* SubscriptionService *)

\* NewSubscription with a trial of one month.
NewSubscriptionOneMonth(userId, type, now) ==
    [ userId |-> userId,
      type |-> type,
      status |-> "trial",
      startDate |-> now,
      endDate |-> addMonths(now, 1),
      isTrial |-> TRUE,
      trialEndDate |-> Set(addMonths(now, 1)),
      paymentHistory |-> <<>>,
      autoRenew |-> TRUE,
      lastPaymentDate |-> Unset,
      nextPaymentDate |-> Unset ]

\* NewSubscription, with the document created in status active.
NewSubscriptionActive(userId, type, now) ==
    LET startDate == now
        endDate == addMonths(startDate, 3)
        trialEndDate == endDate
    IN  [ userId |-> userId,
          type |-> type,
          status |-> "active",
          startDate |-> startDate,
          endDate |-> endDate,
          isTrial |-> TRUE,
          trialEndDate |-> Set(trialEndDate),
          paymentHistory |-> <<>>,
          autoRenew |-> TRUE,
          lastPaymentDate |-> Unset,
          nextPaymentDate |-> Unset ]

\* createSubscription: the document handed to Subscription.create.
NewSubscription(userId, type, now) ==
    LET startDate == now
        endDate == addMonths(startDate, 3)
        trialEndDate == endDate
    IN  [ userId |-> userId,
          type |-> type,
          status |-> "trial",
          startDate |-> startDate,
          endDate |-> endDate,
          isTrial |-> TRUE,
          trialEndDate |-> Set(trialEndDate),
          paymentHistory |-> <<>>,
          autoRenew |-> TRUE,
          lastPaymentDate |-> Unset,
          nextPaymentDate |-> Unset ]

\* createSubscription: Subscription.create inserts a new document; neither
\* the service nor the schema's (non-unique) indexes look for an existing one.
createSubscription(coll, userId, type, now) ==
    [ threw |-> FALSE,
      coll |-> Append(coll, NewSubscription(userId, type, now)),
      value |-> Len(coll) + 1 ]

\* getSubscriptionStatus: the position of the document found, 0 for null.
getSubscriptionStatus(coll, userId, type) ==
    FindOne({k \in 1..Len(coll) : ByUserAndType(userId, type, coll[k])})

\* ActiveFilter with $gte in place of $gt.
ActiveFilterInclusive(userId, type, now, doc) ==
    /\ doc.userId = userId
    /\ doc.type = type
    /\ doc.status \in {"active", "trial"}
    /\ doc.endDate >= now

\* isSubscriptionActive: the filter of its findOne.
ActiveFilter(userId, type, now, doc) ==
    /\ doc.userId = userId
    /\ doc.type = type
    /\ doc.status \in {"active", "trial"}
    /\ doc.endDate > now

isSubscriptionActive(coll, userId, type, now) ==
    FindOne({k \in 1..Len(coll) : ActiveFilter(userId, type, now, coll[k])}) # 0

\* Renewed, with automatic renewal switched back on by the payment.
RenewedResuming(doc, amount, transactionId, now) ==
    LET newEndDate == addMonths(now, 1)
    IN  [ doc EXCEPT
            !.status = "active",
            !.isTrial = FALSE,
            !.endDate = newEndDate,
            !.autoRenew = TRUE,
            !.lastPaymentDate = Set(now),
            !.nextPaymentDate = Set(newEndDate),
            !.paymentHistory =
                Append(@, [ amount |-> amount,
                            date |-> now,
                            transactionId |-> transactionId,
                            status |-> "success" ]) ]

\* Renewed, with the month added to the document's endDate instead of now.
RenewedFromEndDate(doc, amount, transactionId, now) ==
    [ doc EXCEPT
        !.status = "active",
        !.isTrial = FALSE,
        !.endDate = addMonths(doc.endDate, 1),
        !.lastPaymentDate = Set(now),
        !.nextPaymentDate = Set(addMonths(doc.endDate, 1)),
        !.paymentHistory =
            Append(@, [ amount |-> amount,
                        date |-> now,
                        transactionId |-> transactionId,
                        status |-> "success" ]) ]

\* renewSubscription: the assignments made to the document found.
Renewed(doc, amount, transactionId, now) ==
    LET newEndDate == addMonths(now, 1)
    IN  [ doc EXCEPT
            !.status = "active",
            !.isTrial = FALSE,
            !.endDate = newEndDate,
            !.lastPaymentDate = Set(now),
            !.nextPaymentDate = Set(newEndDate),
            !.paymentHistory =
                Append(@, [ amount |-> amount,
                            date |-> now,
                            transactionId |-> transactionId,
                            status |-> "success" ]) ]

renewSubscription(coll, userId, type, amount, transactionId, now) ==
    LET i == FindOne({k \in 1..Len(coll) : ByUserAndType(userId, type, coll[k])})
    IN  IF i = 0
        THEN [ threw |-> TRUE, coll |-> coll, value |-> 0 ]
        ELSE [ threw |-> FALSE,
               coll |-> [coll EXCEPT ![i] = Renewed(coll[i], amount, transactionId, now)],
               value |-> i ]

\* Cancelled, deactivating the subscription at once.
CancelledAtOnce(doc) == [doc EXCEPT !.autoRenew = FALSE, !.status = "inactive"]

\* cancelSubscription: the assignment made to the document found.
Cancelled(doc) == [doc EXCEPT !.autoRenew = FALSE]

cancelSubscription(coll, userId, type) ==
    LET i == FindOne({k \in 1..Len(coll) : ByUserAndType(userId, type, coll[k])})
    IN  IF i = 0
        THEN [ threw |-> TRUE, coll |-> coll, value |-> 0 ]
        ELSE [ threw |-> FALSE,
               coll |-> [coll EXCEPT ![i] = Cancelled(coll[i])],
               value |-> i ]

\* getTrialDaysRemaining: <<>> for null, <<n>> for the number n.
getTrialDaysRemaining(coll, userId, type, now) ==
    LET i == FindOne({k \in 1..Len(coll) :
                          ByUserAndType(userId, type, coll[k]) /\ coll[k].isTrial})
    IN  IF i = 0 \/ coll[i].trialEndDate = Unset
        THEN <<>>
        ELSE LET trialEndDate == coll[i].trialEndDate[1]
             IN  IF isAfter(now, trialEndDate)
                 THEN <<0>>
                 ELSE <<Ceil(trialEndDate - now, HoursPerDay)>>

RECURSIVE Descending(_)
\* The members of a set of positions, largest first.
Descending(S) ==
    IF S = {} THEN <<>>
    ELSE LET m == CHOOSE i \in S : \A j \in S : j <= i
         IN  <<m>> \o Descending(S \ {m})

\* getSubscriptionHistory: find({userId, type}).sort({createdAt: -1}), as the
\* positions of the documents (createdAt grows with the insertion order).
getSubscriptionHistory(coll, userId, type) ==
    Descending({k \in 1..Len(coll) : ByUserAndType(userId, type, coll[k])})

\* ExpiredFilter with $lte in place of $lt.
ExpiredFilterInclusive(now, doc) ==
    /\ doc.endDate <= now
    /\ doc.status \in {"active", "trial"}

\* ExpiredFilter that overlooks the trials.
ExpiredFilterActiveOnly(now, doc) ==
    /\ doc.endDate < now
    /\ doc.status = "active"

\* updateSubscriptionStatus: the filter of its updateMany.
ExpiredFilter(now, doc) ==
    /\ doc.endDate < now
    /\ doc.status \in {"active", "trial"}

\* updateSubscriptionStatus, extending the expired subscriptions by a month
\* instead of deactivating them.
updateSubscriptionStatusExtending(coll, now) ==
    [ i \in 1..Len(coll) |->
        IF coll[i].endDate < now /\ coll[i].status \in {"active", "trial"}
        THEN [coll[i] EXCEPT !.endDate = addMonths(@, 1)]
        ELSE coll[i] ]

\* updateSubscriptionStatus: updateMany(filter, {status: "inactive"}).
updateSubscriptionStatus(coll, now) ==
    [ i \in 1..Len(coll) |->
        IF ExpiredFilter(now, coll[i])
        THEN [coll[i] EXCEPT !.status = "inactive"]
        ELSE coll[i] ]

----------------------------------------------------------------------------
(* The HTTP boundary: routes/subscription.ts and the requireSubscription   *)
(* middleware.  `last` is the latest step taken: the request, the status   *)
(* code answered (0 when no response was sent), whether the request        *)
(* reached SubscriptionService, whether next() was called, and the body.   *)

Step(op, userId, type, amount, transactionId, code, called, next, body) ==
    [ op |-> op, userId |-> userId, type |-> type, amount |-> amount,
      transactionId |-> transactionId, code |-> code, called |-> called,
      next |-> next, body |-> body ]

\* The check every route but /renew makes of `type`.
InvalidType(type) == NotStr(type) \/ (type # "seller" /\ type # "buyer")

\* The check /renew makes of its body.
MissingRenewFields(type, amount, transactionId) ==
    NotStr(type) \/ NotNum(amount) \/ NotStr(transactionId)

\* res.json(document) for a position of the collection; null is <<>>.
Json(coll, i) == IF i = 0 THEN <<>> ELSE <<coll[i]>>

Init ==
    /\ store = <<>>
    /\ clock = FirstInstant
    /\ last = Step("init", "", "", 0, "", 0, FALSE, FALSE, <<>>)

\* GET /status
GetStatus(userId, type) ==
    /\ UNCHANGED <<store, clock>>
    /\ last' =
        IF InvalidType(type)
        THEN Step("status", userId, type, 0, "", 400, FALSE, FALSE, <<>>)
        ELSE Step("status", userId, type, 0, "", 200, TRUE, FALSE,
                  Json(store, getSubscriptionStatus(store, userId, type)))

\* POST /create
PostCreate(userId, type) ==
    IF InvalidType(type)
    THEN /\ UNCHANGED <<store, clock>>
         /\ last' = Step("create", userId, type, 0, "", 400, FALSE, FALSE, <<>>)
    ELSE LET r == createSubscription(store, userId, type, clock)
         IN  /\ store' = r.coll
             /\ UNCHANGED clock
             /\ last' = Step("create", userId, type, 0, "", 201, TRUE, FALSE,
                             Json(r.coll, r.value))

\* POST /renew
PostRenew(userId, type, amount, transactionId) ==
    IF MissingRenewFields(type, amount, transactionId)
    THEN /\ UNCHANGED <<store, clock>>
         /\ last' = Step("renew", userId, type, amount, transactionId, 400,
                         FALSE, FALSE, <<>>)
    ELSE LET r == renewSubscription(store, userId, type, amount, transactionId, clock)
         IN  IF r.threw
             THEN /\ UNCHANGED <<store, clock>>
                  /\ last' = Step("renew", userId, type, amount, transactionId, 500,
                                  TRUE, FALSE, <<>>)
             ELSE /\ store' = r.coll
                  /\ UNCHANGED clock
                  /\ last' = Step("renew", userId, type, amount, transactionId, 200,
                                  TRUE, FALSE, Json(r.coll, r.value))

\* POST /cancel
PostCancel(userId, type) ==
    IF InvalidType(type)
    THEN /\ UNCHANGED <<store, clock>>
         /\ last' = Step("cancel", userId, type, 0, "", 400, FALSE, FALSE, <<>>)
    ELSE LET r == cancelSubscription(store, userId, type)
         IN  IF r.threw
             THEN /\ UNCHANGED <<store, clock>>
                  /\ last' = Step("cancel", userId, type, 0, "", 500, TRUE, FALSE, <<>>)
             ELSE /\ store' = r.coll
                  /\ UNCHANGED clock
                  /\ last' = Step("cancel", userId, type, 0, "", 200, TRUE, FALSE,
                                  Json(r.coll, r.value))

\* GET /trial-days
GetTrialDays(userId, type) ==
    /\ UNCHANGED <<store, clock>>
    /\ last' =
        IF InvalidType(type)
        THEN Step("trial-days", userId, type, 0, "", 400, FALSE, FALSE, <<>>)
        ELSE Step("trial-days", userId, type, 0, "", 200, TRUE, FALSE,
                  getTrialDaysRemaining(store, userId, type, clock))

\* GET /history
GetHistory(userId, type) ==
    /\ UNCHANGED <<store, clock>>
    /\ last' =
        IF InvalidType(type)
        THEN Step("history", userId, type, 0, "", 400, FALSE, FALSE, <<>>)
        ELSE Step("history", userId, type, 0, "", 200, TRUE, FALSE,
                  getSubscriptionHistory(store, userId, type))

\* RequireSubscription without the return after the 403 answer: next() is
\* called all the same.
RequireSubscriptionFallingThrough(userId, type) ==
    /\ UNCHANGED <<store, clock>>
    /\ last' =
        IF ~isSubscriptionActive(store, userId, type, clock)
        THEN Step("requireSubscription", userId, type, 0, "", 403, TRUE, TRUE,
                  IF type = "seller" THEN <<79>> ELSE <<59>>)
        ELSE Step("requireSubscription", userId, type, 0, "", 0, TRUE, TRUE, <<>>)

\* requireSubscription(type)(req, res, next); the body is the price asked.
RequireSubscription(userId, type) ==
    /\ UNCHANGED <<store, clock>>
    /\ last' =
        IF ~isSubscriptionActive(store, userId, type, clock)
        THEN Step("requireSubscription", userId, type, 0, "", 403, TRUE, FALSE,
                  IF type = "seller" THEN <<79>> ELSE <<59>>)
        ELSE Step("requireSubscription", userId, type, 0, "", 0, TRUE, TRUE, <<>>)

\* The background job: one run of updateSubscriptionStatus.
Sweep ==
    /\ store' = updateSubscriptionStatus(store, clock)
    /\ UNCHANGED clock
    /\ last' = Step("sweep", "", "", 0, "", 0, TRUE, FALSE, <<>>)

\* Time passes to the next sampled instant.
Tick ==
    /\ \E t \in Instants :
        /\ t > clock
        /\ \A u \in Instants : u > clock => t <= u
        /\ clock' = t
    /\ UNCHANGED store
    /\ last' = Step("tick", "", "", 0, "", 0, FALSE, FALSE, <<>>)

\* The bounds on the requests the model follows: a request that leaves the
\* collection as it is, is followed in a watched collection only, and one that
\* grows the collection while it holds fewer than MaxWrites writes.
Watched == Writes(store) <= MaxWatched

Admitted(rejected, grows) ==
    IF rejected THEN Watched ELSE (grows => Writes(store) < MaxWrites)

Followed == store' = store => Watched

Next ==
    \/ \E userId \in Users, type \in TypeInputs :
            Watched /\ GetStatus(userId, type)
    \/ \E userId \in Users, type \in TypeInputs :
            /\ Admitted(InvalidType(type), TRUE)
            /\ PostCreate(userId, type)
            /\ Followed
    \/ \E userId \in Users, type \in TypeInputs, amount \in Amounts,
          transactionId \in TransactionIds :
            /\ Admitted(MissingRenewFields(type, amount, transactionId), TRUE)
            /\ PostRenew(userId, type, amount, transactionId)
            /\ Followed
    \/ \E userId \in Users, type \in TypeInputs :
            /\ Admitted(InvalidType(type), FALSE)
            /\ PostCancel(userId, type)
            /\ Followed
    \/ \E userId \in Users, type \in TypeInputs :
            Watched /\ GetTrialDays(userId, type)
    \/ \E userId \in Users, type \in TypeInputs :
            Watched /\ GetHistory(userId, type)
    \/ \E userId \in Users, type \in SubscriptionTypes :
            Watched /\ RequireSubscription(userId, type)
    \/ Sweep
    \/ Tick

Spec == Init /\ [][Next]_vars

\* The deployment runs the sweep periodically: it is not postponed forever.
FairSpec == Spec /\ WF_vars(Sweep)

----------------------------------------------------------------------------
(* The trial countdown: one trial subscription, the clock running hour by  *)
(* hour from its creation until after its end, read by GET /trial-days.    *)

TrialInit ==
    /\ \E userId \in Users, type \in SubscriptionTypes :
          store = createSubscription(<<>>, userId, type, FirstInstant).coll
    /\ clock = FirstInstant
    /\ last = Step("init", "", "", 0, "", 0, FALSE, FALSE, <<>>)

\* The latest instant the trial clock reaches.
TrialHorizon == store[1].endDate + MaxHoursPast

\* An hour passes.
HourPasses ==
    /\ clock + 1 <= TrialHorizon
    /\ clock' = clock + 1
    /\ UNCHANGED store
    /\ last' = Step("tick", "", "", 0, "", 0, FALSE, FALSE, <<>>)

\* A full day (1000 * 60 * 60 * 24 ms) passes.
DayPasses ==
    /\ clock + HoursPerDay <= TrialHorizon
    /\ clock' = clock + HoursPerDay
    /\ UNCHANGED store
    /\ last' = Step("tick", "", "", 0, "", 0, FALSE, FALSE, <<>>)

TrialNext ==
    \/ \E userId \in Users, type \in SubscriptionTypes :
            GetTrialDays(userId, type)
    \/ HourPasses
    \/ DayPasses
    \/ Sweep

TrialSpec == TrialInit /\ [][TrialNext]_vars

----------------------------------------------------------------------------
(* renewSubscription step by step, with the sweep running in between.      *)
(* Here `last` is the renewal under way: its request, the position it has  *)
(* reached (start, loaded, saved) and the document findOne gave it.        *)

\* The paths of a subscription document.
Paths == DOMAIN NewSubscription("", "", 0)

\* document.save() of mongoose for a document loaded as `loaded` and assigned
\* to as `assigned`: the paths whose value was changed are written, the other
\* paths of the stored document are left as they are.
Saved(stored, loaded, assigned) ==
    [ p \in Paths |-> IF assigned[p] # loaded[p] THEN assigned[p] ELSE stored[p] ]

\* The subscriptions a renewal can meet: one created at the first instant,
\* left in its trial or renewed once at a later instant.
RenewableSubscriptions ==
    LET created == { NewSubscription(userId, type, FirstInstant) :
                        userId \in Users, type \in SubscriptionTypes }
    IN  created \cup { Renewed(doc, 1, "tx0", at) : doc \in created, at \in Instants }

\* The renewal under way.
Renewal(pc, userId, type, position, loaded) ==
    [ op |-> "renew", pc |-> pc, userId |-> userId, type |-> type,
      amount |-> 1, transactionId |-> "tx1", position |-> position,
      loaded |-> loaded ]

RaceInit ==
    /\ clock \in Instants
    /\ \E doc \in RenewableSubscriptions, swept \in BOOLEAN :
          /\ doc.lastPaymentDate # Unset => doc.lastPaymentDate[1] <= clock
          /\ store = IF swept THEN updateSubscriptionStatus(<<doc>>, clock)
                              ELSE <<doc>>
          /\ last = Renewal("start", doc.userId, doc.type, 0, <<>>)

\* const subscription = await Subscription.findOne({ userId, type })
RenewFindOne ==
    /\ last.pc = "start"
    /\ LET i == FindOne({k \in 1..Len(store) :
                            ByUserAndType(last.userId, last.type, store[k])})
       IN  /\ i # 0
           /\ last' = Renewal("loaded", last.userId, last.type, i, <<store[i]>>)
    /\ UNCHANGED <<store, clock>>

\* The assignments, then await subscription.save()
RenewSave ==
    /\ last.pc = "loaded"
    /\ LET i == last.position
           loaded == last.loaded[1]
           assigned == Renewed(loaded, last.amount, last.transactionId, clock)
       IN  store' = [store EXCEPT ![i] = Saved(@, loaded, assigned)]
    /\ last' = [last EXCEPT !.pc = "saved"]
    /\ UNCHANGED clock

\* The sweep's updateMany, at any point of the renewal.
RaceSweep ==
    /\ store' = updateSubscriptionStatus(store, clock)
    /\ UNCHANGED <<clock, last>>

RaceNext == RenewFindOne \/ RenewSave \/ RaceSweep

RaceSpec == RaceInit /\ [][RaceNext]_vars

----------------------------------------------------------------------------
(* The requireSubscription middleware over a collection that can fail to   *)
(* answer: isSubscriptionActive returns, or its findOne rejects.           *)

GateInit ==
    /\ clock \in Instants
    /\ \/ store = <<>>
       \/ \E doc \in RenewableSubscriptions, swept \in BOOLEAN :
             /\ doc.lastPaymentDate # Unset => doc.lastPaymentDate[1] <= clock
             /\ store = IF swept THEN updateSubscriptionStatus(<<doc>>, clock)
                                 ELSE <<doc>>
    /\ last = Step("init", "", "", 0, "", 0, FALSE, FALSE, <<>>)

\* requireSubscription when isSubscriptionActive throws: the catch branch.
RequireSubscriptionThrows(userId, type) ==
    /\ UNCHANGED <<store, clock>>
    /\ last' = Step("requireSubscription", userId, type, 0, "", 500, TRUE, FALSE,
                    <<>>)

GateNext ==
    \/ \E userId \in Users, type \in SubscriptionTypes :
            RequireSubscription(userId, type)
    \/ \E userId \in Users, type \in SubscriptionTypes :
            RequireSubscriptionThrows(userId, type)

GateSpec == GateInit /\ [][GateNext]_vars

----------------------------------------------------------------------------
(* The geolocation utility (server/src/utils/geolocation.ts)               *)
(*                                                                         *)
(* The utility's double arithmetic is rendered in fixed point, one         *)
(* rounding per operation in the order the code evaluates it:              *)
(*   degrees: whole degrees; radians: millionths; sin, cos, sqrt:          *)
(*   thousandths; the haversine term a: millionths; distances: whole km.   *)
(* sin is interpolated between its values every 15 degrees. NaN does not   *)
(* arise on the coordinates of CoordinateInputs (a stays within [0, 1]).   *)

\* The scale of the fixed-point numbers.
Milli == 1000

\* R of calculateDistance, in km.
EarthRadius == 6371

\* Math.PI / 180 in millionths.
MicroRadPerDegree == 17453

\* The spacing, in degrees, of the tabulated values of sin.
KnotDegrees == 15

\* The cost per km beyond the free radius.
CostPerKm == 5

\* The default of baseDeliveryCost.
DefaultBaseDeliveryCost == 50

\* Infinity, the initial minDistance of the nearest-neighbour scan.
Infinity == 2147483647

\* n / d rounded to the nearest, halves away from zero, as a double operation
\* rounds: the same magnitude for n and -n.
Round(n, d) ==
    IF n >= 0 THEN (2 * n + d) \div (2 * d) ELSE -((2 * (-n) + d) \div (2 * d))

\* Math.round(n / d): the nearest integer, halves towards plus infinity.
MathRound(n, d) == (2 * n + d) \div (2 * d)

toRad(degrees) == degrees * MicroRadPerDegree

\* sin at 0, 15, ..., 90 degrees.
SinKnots == <<0, 259, 500, 707, 866, 966, 1000>>

\* Math.sin on [0, pi/2].
SinQuadrant(x) ==
    LET step == toRad(KnotDegrees)
        k == x \div step
    IN  IF k + 2 > Len(SinKnots) THEN SinKnots[Len(SinKnots)]
        ELSE SinKnots[k + 1]
               + Round((SinKnots[k + 2] - SinKnots[k + 1]) * (x - k * step), step)

\* Math.sin
sin(x) ==
    LET halfTurn == toRad(180)
        y == x % (2 * halfTurn)
    IN  IF 2 * y <= halfTurn THEN SinQuadrant(y)
        ELSE IF y <= halfTurn THEN SinQuadrant(halfTurn - y)
        ELSE IF 2 * y <= 3 * halfTurn THEN -SinQuadrant(y - halfTurn)
        ELSE -SinQuadrant(2 * halfTurn - y)

\* Math.cos
cos(x) == sin(x + toRad(90))

RECURSIVE SqrtWithin(_, _, _)
\* The largest r in lo..hi with r * r <= n, by bisection.
SqrtWithin(n, lo, hi) ==
    IF lo = hi THEN lo
    ELSE LET mid == (lo + hi + 1) \div 2
         IN  IF mid * mid <= n THEN SqrtWithin(n, mid, hi)
                               ELSE SqrtWithin(n, lo, mid - 1)

\* Math.sqrt of a number of millionths in [0, 4], rounded down
sqrt(n) == SqrtWithin(n, 0, 2 * Milli)

\* The angle in [0, pi/2] whose sin is s.
asin(s) ==
    LET step == toRad(KnotDegrees)
        k == CHOOSE j \in 1..(Len(SinKnots) - 1) :
                /\ SinKnots[j] <= s
                /\ (s <= SinKnots[j + 1] \/ j = Len(SinKnots) - 1)
    IN  IF s >= Milli THEN toRad(90)
        ELSE (k - 1) * step
               + Round((s - SinKnots[k]) * step, SinKnots[k + 1] - SinKnots[k])

\* Math.atan2(y, x) for y >= 0 and x >= 0
atan2(y, x) ==
    IF y = 0 THEN 0 ELSE asin(Round(y * Milli, sqrt(x * x + y * y)))

\* calculateDistance with the latitude of the first point taken for both.
calculateDistanceOneLatitude(lat1, lon1, lat2, lon2) ==
    LET dLat == toRad(lat2 - lat1)
        dLon == toRad(lon2 - lon1)
        a == sin(Round(dLat, 2)) * sin(Round(dLat, 2))
               + Round(Round(cos(toRad(lat1)) * cos(toRad(lat1)), Milli)
                         * sin(Round(dLon, 2)), Milli)
                   * sin(Round(dLon, 2))
        c == 2 * atan2(sqrt(a), sqrt(Milli * Milli - a))
    IN  Round(EarthRadius * Round(c, Milli), Milli)

\* calculateDistance: the haversine distance in km.
calculateDistance(lat1, lon1, lat2, lon2) ==
    LET dLat == toRad(lat2 - lat1)
        dLon == toRad(lon2 - lon1)
        a == sin(Round(dLat, 2)) * sin(Round(dLat, 2))
               + Round(Round(cos(toRad(lat1)) * cos(toRad(lat2)), Milli)
                         * sin(Round(dLon, 2)), Milli)
                   * sin(Round(dLon, 2))
        c == 2 * atan2(sqrt(a), sqrt(Milli * Milli - a))
    IN  Round(EarthRadius * Round(c, Milli), Milli)

\* calculateDeliveryCost; the two distances are in tenths of a km.
calculateDeliveryCost(distance, freeDeliveryRadius, baseDeliveryCost) ==
    IF distance <= freeDeliveryRadius
    THEN 0
    ELSE baseDeliveryCost
           + MathRound((distance - freeDeliveryRadius) * CostPerKm, 10)

\* distance <= minDistance: the last of the nearest points wins.
CloserOrEqual(distance, minDistance) == distance <= minDistance

\* distance < minDistance, the test of the nearest-neighbour scan
Closer(distance, minDistance) == distance < minDistance

RECURSIVE Scan(_, _, _, _, _)
\* The for loop of calculateOptimalRoute from index i on (indices from 1):
\* the value of nearestIndex when it ends.
Scan(current, unvisited, i, minDistance, nearestIndex) ==
    IF i > Len(unvisited) THEN nearestIndex
    ELSE LET distance == calculateDistance(current.latitude, current.longitude,
                                           unvisited[i].latitude,
                                           unvisited[i].longitude)
         IN  IF Closer(distance, minDistance)
             THEN Scan(current, unvisited, i + 1, distance, i)
             ELSE Scan(current, unvisited, i + 1, minDistance, nearestIndex)

\* unvisited.splice(0, 1): the first element goes, whichever was nearest.
SpliceFirst(unvisited, nearestIndex) == Tail(unvisited)

\* unvisited.splice(nearestIndex, 1)
Splice(unvisited, nearestIndex) ==
    SubSeq(unvisited, 1, nearestIndex - 1)
        \o SubSeq(unvisited, nearestIndex + 1, Len(unvisited))

RECURSIVE Visit(_, _, _)
\* The while loop of calculateOptimalRoute: the route when it ends.
Visit(route, current, unvisited) ==
    IF Len(unvisited) = 0 THEN route
    ELSE LET nearestIndex == Scan(current, unvisited, 1, Infinity, 1)
         IN  Visit(Append(route, unvisited[nearestIndex]),
                   unvisited[nearestIndex],
                   Splice(unvisited, nearestIndex))

\* The points in the order given.
calculateOptimalRouteAsGiven(points) == points

calculateOptimalRoute(points) ==
    IF Len(points) <= 2 THEN points
    ELSE Visit(<<Head(points)>>, Head(points), Tail(points))

RECURSIVE RouteDistanceFrom(_, _)
\* The for loop of calculateRouteDistance from index i on (indices from 1).
RouteDistanceFrom(route, i) ==
    IF i > Len(route) - 1 THEN 0
    ELSE calculateDistance(route[i].latitude, route[i].longitude,
                           route[i + 1].latitude, route[i + 1].longitude)
           + RouteDistanceFrom(route, i + 1)

calculateRouteDistance(route) == RouteDistanceFrom(route, 1)

\* radians * (180 / Math.PI), in thousandths of a degree (to the hundredth)
toDegrees(radians) == Round(radians * 100, MicroRadPerDegree) * 10

\* radius / R, in millionths of a radian (radius in km)
AngularRadius(radius) == Round(radius * 100 * Milli, EarthRadius) * 10

\* The else branch of getBoundingBox is taken: the box reaches a pole.
NearThePoles(latitude, radius) ==
    ~ ( /\ toRad(latitude) - AngularRadius(radius) > -toRad(90)
        /\ toRad(latitude) + AngularRadius(radius) < toRad(90) )

\* getBoundingBox where the assignments of its else branch to minLat and
\* maxLat take effect; the box is in thousandths of a degree.
getBoundingBox(latitude, longitude, radius) ==
    LET radDist == AngularRadius(radius)
        radLat == toRad(latitude)
        radLon == toRad(longitude)
        minLat == radLat - radDist
        maxLat == radLat + radDist
        deltaLon == asin(Round(sin(radDist) * Milli, cos(radLat)))
        minLon == radLon - deltaLon
        maxLon == radLon + deltaLon
        Max(a, b) == IF a >= b THEN a ELSE b
        Min(a, b) == IF a <= b THEN a ELSE b
    IN  IF ~NearThePoles(latitude, radius)
        THEN [ minLat |-> toDegrees(minLat),
               maxLat |-> toDegrees(maxLat),
               minLon |-> toDegrees(IF minLon < -toRad(180)
                                    THEN minLon + 2 * toRad(180) ELSE minLon),
               maxLon |-> toDegrees(IF maxLon > toRad(180)
                                    THEN maxLon - 2 * toRad(180) ELSE maxLon) ]
        ELSE [ minLat |-> toDegrees(Max(minLat, -toRad(90))),
               maxLat |-> toDegrees(Min(maxLat, toRad(90))),
               minLon |-> toDegrees(-toRad(180)),
               maxLon |-> toDegrees(toRad(180)) ]

----------------------------------------------------------------------------
(* Calls of the geolocation utility: a call is drawn with its arguments,   *)
(* then the function called is applied to them.                            *)

Point(latitude, longitude) == [ latitude |-> latitude, longitude |-> longitude ]

\* The points of the routes, in degrees: a square of the 30 degree grid and
\* a point of the equator farther from it.
RoutePoints ==
    { Point(0, 0), Point(0, 30), Point(30, 0), Point(30, 30), Point(0, -60) }

\* The coordinates handed to calculateDistance: the points of the routes, one
\* in the southern and western hemispheres, one with a latitude above 90 and
\* one with a longitude above 180.
CoordinateInputs ==
    RoutePoints \cup { Point(-60, -90), Point(120, 0), Point(0, 210) }

\* The lists of points handed to the route functions.
RouteInputs == UNION { [1..n -> RoutePoints] : n \in 0..MaxRouteLength }

\* distance and freeDeliveryRadius, in tenths of a km
DistanceInputs == {0, 30, 50, 51, 53, 100}
FreeRadiusInputs == {0, 50}

\* baseDeliveryCost; <<>> when the argument is left out
BaseCostInputs == { <<>>, <<-100>>, <<0>>, <<50>> }

\* latitude and longitude in degrees and radius in km handed to getBoundingBox
BoxInputs ==
    {-90, -60, 0, 30, 89, 90} \X {-180, -170, 0, 30, 180} \X {0, 10, 1000, 5000}

\* A call of a function of the utility: its arguments, whether it has
\* returned or thrown, and the value returned.
Call(op, args, done, threw, result) ==
    [ op |-> op, args |-> args, done |-> done, threw |-> threw,
      result |-> result ]

GeoInit ==
    /\ store = <<>>
    /\ clock = FirstInstant
    /\ \/ \E a, b \in CoordinateInputs :
            last = Call("calculateDistance", <<a, b>>, FALSE, FALSE, <<>>)
       \/ \E distance \in DistanceInputs, freeDeliveryRadius \in FreeRadiusInputs,
             baseDeliveryCost \in BaseCostInputs :
            last = Call("calculateDeliveryCost",
                        <<distance, freeDeliveryRadius, baseDeliveryCost>>,
                        FALSE, FALSE, <<>>)
       \/ \E points \in RouteInputs :
            last = Call("calculateOptimalRoute", <<points>>, FALSE, FALSE, <<>>)
       \/ \E route \in RouteInputs :
            last = Call("calculateRouteDistance", <<route>>, FALSE, FALSE, <<>>)
       \/ \E box \in BoxInputs :
            last = Call("getBoundingBox", box, FALSE, FALSE, <<>>)

CallCalculateDistance ==
    /\ last.op = "calculateDistance" /\ ~last.done
    /\ last' = Call(last.op, last.args, TRUE, FALSE,
                    <<calculateDistance(last.args[1].latitude,
                                        last.args[1].longitude,
                                        last.args[2].latitude,
                                        last.args[2].longitude)>>)
    /\ UNCHANGED <<store, clock>>

CallCalculateDeliveryCost ==
    /\ last.op = "calculateDeliveryCost" /\ ~last.done
    /\ last' = Call(last.op, last.args, TRUE, FALSE,
                    <<calculateDeliveryCost(
                          last.args[1], last.args[2],
                          IF last.args[3] = <<>> THEN DefaultBaseDeliveryCost
                                                 ELSE last.args[3][1])>>)
    /\ UNCHANGED <<store, clock>>

CallCalculateOptimalRoute ==
    /\ last.op = "calculateOptimalRoute" /\ ~last.done
    /\ last' = Call(last.op, last.args, TRUE, FALSE,
                    <<calculateOptimalRoute(last.args[1])>>)
    /\ UNCHANGED <<store, clock>>

CallCalculateRouteDistance ==
    /\ last.op = "calculateRouteDistance" /\ ~last.done
    /\ last' = Call(last.op, last.args, TRUE, FALSE,
                    <<calculateRouteDistance(last.args[1])>>)
    /\ UNCHANGED <<store, clock>>

\* minLat and maxLat are declared const and assigned in the else branch:
\* where the build keeps them const the assignment throws a TypeError, where
\* it lowers const to var the assignment takes effect.
CallGetBoundingBox ==
    /\ last.op = "getBoundingBox" /\ ~last.done
    /\ \E constKept \in BOOLEAN :
          last' = IF constKept /\ NearThePoles(last.args[1], last.args[3])
                  THEN Call(last.op, last.args, TRUE, TRUE, <<>>)
                  ELSE Call(last.op, last.args, TRUE, FALSE,
                            <<getBoundingBox(last.args[1], last.args[2],
                                             last.args[3])>>)
    /\ UNCHANGED <<store, clock>>

GeoNext ==
    \/ CallCalculateDistance
    \/ CallCalculateDeliveryCost
    \/ CallCalculateOptimalRoute
    \/ CallCalculateRouteDistance
    \/ CallGetBoundingBox

GeoSpec == GeoInit /\ [][GeoNext]_vars

----------------------------------------------------------------------------
(* Local sellers (server/src/models/LocalSeller.ts,                        *)
(* server/src/services/LocalSellerService.ts, server/src/routes/           *)
(* localSellers.ts). In the seller specification `store` is the            *)
(* LocalSeller collection and `last` the latest call and what it returned. *)
(* A query is a function from paths to conditions; "coordinates" stands    *)
(* for the path address.coordinates.                                       *)

\* The default of the radius parameter, in km.
DefaultRadius == 10

\* radius * 1000: km to metres
MetresPerKm == 1000

\* Where sellers are registered and where nearby sellers are looked for.
SellerPoints == { Point(0, 0), Point(0, 30) }

\* The enum of the schema's `status` path.
SellerStatuses == {"active", "inactive", "suspended"}

\* The radius of a query, in km; <<>> when it is left out.
RadiusInputs == { <<>>, <<5000>> }

\* The filters argument of findNearbySellers; <<>> is the empty object {}.
FilterInputs ==
    { <<>>, [businessType |-> "individual"], [status |-> "active"],
      [status |-> "suspended"] }

\* { ...base, ...over }: the keys of both, those of `over` winning.
Spread(base, over) ==
    [ k \in DOMAIN base \cup DOMAIN over |->
          IF k \in DOMAIN over THEN over[k] ELSE base[k] ]

\* new LocalSeller(sellerData): status defaults to active.
NewLocalSeller(coordinates, businessType) ==
    [ coordinates |-> coordinates, businessType |-> businessType,
      status |-> "active" ]

\* The $near condition: within $maxDistance metres of the $geometry point.
Near(coordinates, condition) ==
    calculateDistance(condition.latitude, condition.longitude,
                      coordinates.latitude, coordinates.longitude) * MetresPerKm
        <= condition.maxDistance

\* The document satisfies every condition of the query.
MatchesQuery(doc, query) ==
    \A k \in DOMAIN query :
        IF k = "coordinates" THEN Near(doc[k], query[k]) ELSE doc[k] = query[k]

\* findNearbySellers: the sellers found, each with its distance.
findNearbySellers(coll, latitude, longitude, radius, filters) ==
    LET query == Spread([ coordinates |->
                              [ latitude |-> latitude, longitude |-> longitude,
                                maxDistance |-> radius * MetresPerKm ],
                          status |-> "active" ],
                        filters)
        sellers == SelectSeq(coll, LAMBDA doc : MatchesQuery(doc, query))
    IN  [ i \in 1..Len(sellers) |->
            Spread(sellers[i],
                   [ distance |->
                       calculateDistance(latitude, longitude,
                                         sellers[i].coordinates.latitude,
                                         sellers[i].coordinates.longitude) ]) ]

\* updateSellerStatus, for the seller at position i
updateSellerStatus(coll, i, status) == [coll EXCEPT ![i].status = status]

SellerInit ==
    /\ store = <<>>
    /\ clock = FirstInstant
    /\ last = Call("init", <<>>, TRUE, FALSE, <<>>)

\* POST /register
PostRegister(coordinates) ==
    /\ Len(store) < MaxSellers
    /\ store' = Append(store, NewLocalSeller(coordinates, "individual"))
    /\ last' = Call("register", <<coordinates>>, TRUE, FALSE, <<201>>)
    /\ UNCHANGED clock

\* PATCH /:id/status, by an administrator
PatchStatus(i, status) ==
    /\ store' = updateSellerStatus(store, i, status)
    /\ last' = Call("status", <<i, status>>, TRUE, FALSE, <<200>>)
    /\ UNCHANGED clock

\* GET /nearby: the service is called without filters.
GetNearby(center, radius) ==
    /\ last' = Call("nearby", <<center, radius>>, TRUE, FALSE,
                    <<findNearbySellers(store, center.latitude, center.longitude,
                                        IF radius = <<>> THEN DefaultRadius
                                                         ELSE radius[1],
                                        <<>>)>>)
    /\ UNCHANGED <<store, clock>>

\* A call of LocalSellerService.findNearbySellers with a filters argument.
FindNearbySellers(center, radius, filters) ==
    /\ last' = Call("findNearbySellers", <<center, radius, filters>>, TRUE, FALSE,
                    <<findNearbySellers(store, center.latitude, center.longitude,
                                        IF radius = <<>> THEN DefaultRadius
                                                         ELSE radius[1],
                                        filters)>>)
    /\ UNCHANGED <<store, clock>>

SellerNext ==
    \/ \E coordinates \in SellerPoints : PostRegister(coordinates)
    \/ \E i \in 1..Len(store), status \in SellerStatuses : PatchStatus(i, status)
    \/ \E center \in SellerPoints, radius \in RadiusInputs :
            GetNearby(center, radius)
    \/ \E center \in SellerPoints, radius \in RadiusInputs,
          filters \in FilterInputs :
            FindNearbySellers(center, radius, filters)

SellerSpec == SellerInit /\ [][SellerNext]_vars

----------------------------------------------------------------------------
(* addReview step by step: each call loads the seller (findById), computes *)
(* the new aggregate from what it loaded, and saves. Here `store` holds    *)
(* the one seller reviewed and `last` the calls made so far, each with its *)
(* position (loaded, saved) and the ratings it loaded. An average is kept  *)
(* exactly, as a fraction <<numerator, denominator>>.                      *)

\* The rating of a review (1 to 5 by the schema).
RatingInputs == {1, 2, 5}

\* The defaults of the schema's ratings path.
DefaultRatings == [ average |-> <<0, 1>>, count |-> 0, reviews |-> <<>> ]

\* (currentAverage * totalRatings + rating) / (totalRatings + 1)
NewAverage(currentAverage, totalRatings, rating) ==
    << currentAverage[1] * totalRatings + rating * currentAverage[2],
       currentAverage[2] * (totalRatings + 1) >>

\* The assignments of addReview to the ratings it loaded.
Reviewed(ratings, userId, rating) ==
    [ average |-> NewAverage(ratings.average, ratings.count, rating),
      count |-> ratings.count + 1,
      reviews |-> Append(ratings.reviews, [ userId |-> userId, rating |-> rating ]) ]

\* seller.save() of mongoose: average and count are set when the call changed
\* them, and the review is pushed onto the stored array.
SavedRatings(stored, loaded, assigned) ==
    [ average |-> IF assigned.average[1] * loaded.average[2]
                       = loaded.average[1] * assigned.average[2]
                  THEN stored.average ELSE assigned.average,
      count |-> IF assigned.count # loaded.count THEN assigned.count
                                                 ELSE stored.count,
      reviews |-> Append(stored.reviews, assigned.reviews[Len(assigned.reviews)]) ]

ReviewInit ==
    /\ \E coordinates \in SellerPoints :
          store = << Spread(NewLocalSeller(coordinates, "individual"),
                            [ ratings |-> DefaultRatings ]) >>
    /\ clock = FirstInstant
    /\ last = <<>>

\* const seller = await LocalSeller.findById(sellerId), in a new call
AddReviewFindById(userId, rating) ==
    /\ Len(last) < MaxReviewCalls
    /\ last' = Append(last, [ op |-> "addReview", pc |-> "loaded",
                              userId |-> userId, rating |-> rating,
                              loaded |-> store[1].ratings ])
    /\ UNCHANGED <<store, clock>>

\* The assignments and await seller.save() of call k
AddReviewSave(k) ==
    /\ last[k].pc = "loaded"
    /\ store' = [store EXCEPT ![1].ratings =
                    SavedRatings(@, last[k].loaded,
                                 Reviewed(last[k].loaded, last[k].userId,
                                          last[k].rating))]
    /\ last' = [last EXCEPT ![k].pc = "saved"]
    /\ UNCHANGED clock

ReviewNext ==
    \/ \E userId \in Users, rating \in RatingInputs :
            AddReviewFindById(userId, rating)
    \/ \E k \in 1..Len(last) : AddReviewSave(k)

ReviewSpec == ReviewInit /\ [][ReviewNext]_vars

(***************************************************************************)
(* Reward redemption (server/routes/products.ts, POST /rewards/redeem)     *)
(*                                                                         *)
(* The handler awaits User.findById, decides on the document it loaded and *)
(* then awaits User.findOneAndUpdate, whose filter is the user's id alone, *)
(* so that the calls of two requests interleave. The store holds at most   *)
(* one user document; last is the sequence of the calls begun, each with   *)
(* its position (loaded, done), the points it loaded and its status code.  *)
(***************************************************************************)

\* rewards.points of a user document: unset, or a number.
PointsInputs == {Unset} \cup { Set(n) : n \in {0, 500, 1000, 1750} }

\* req.body.rewardId: the three rewards, an unknown id and the empty string.
RewardIdInputs == {"discount-5", "discount-10", "free-shipping", "gift", ""}

\* The table of rewards of the handler at req.body.rewardId: undefined for
\* an id outside the table.
RewardOf(rewardId) ==
    CASE rewardId = "discount-5"    -> Set([ points |-> 500,  type |-> "discount" ])
      [] rewardId = "discount-10"   -> Set([ points |-> 1000, type |-> "discount" ])
      [] rewardId = "free-shipping" -> Set([ points |-> 750,  type |-> "shipping" ])
      [] OTHER -> Unset

\* user.rewards?.points < reward.points: false when the points are undefined.
InsufficientPoints(points, reward) ==
    points # Unset /\ points[1] < reward.points

\* $inc of rewards.points: an unset field is set to the increment.
Inc(points, by) == Set((IF points = Unset THEN 0 ELSE points[1]) + by)

RewardInit ==
    /\ \/ store = <<>>
       \/ \E points \in PointsInputs :
             store = << [ points |-> points, rewardHistory |-> <<>> ] >>
    /\ clock = FirstInstant
    /\ last = <<>>

\* validationResult(req) is not empty: 400
RedeemInvalid(rewardId) ==
    /\ Len(last) < MaxRedeemCalls
    /\ NotStr(rewardId)
    /\ last' = Append(last, [ op |-> "redeem", pc |-> "done",
                              rewardId |-> rewardId, loaded |-> Unset,
                              code |-> 400 ])
    /\ UNCHANGED <<store, clock>>

\* await User.findById(req.user.userId); 404 when there is no user
RedeemFindById(rewardId) ==
    /\ Len(last) < MaxRedeemCalls
    /\ ~NotStr(rewardId)
    /\ last' = Append(last,
                  IF store = <<>>
                  THEN [ op |-> "redeem", pc |-> "done", rewardId |-> rewardId,
                         loaded |-> Unset, code |-> 404 ]
                  ELSE [ op |-> "redeem", pc |-> "loaded", rewardId |-> rewardId,
                         loaded |-> store[1].points, code |-> 0 ])
    /\ UNCHANGED <<store, clock>>

\* Call k answers 400: the reward is unknown, or the loaded points are
\* fewer than its cost.
RedeemRefused(k) ==
    /\ last[k].pc = "loaded"
    /\ IF RewardOf(last[k].rewardId) = Unset
       THEN TRUE
       ELSE InsufficientPoints(last[k].loaded, RewardOf(last[k].rewardId)[1])
    /\ last' = [last EXCEPT ![k].pc = "done", ![k].code = 400]
    /\ UNCHANGED <<store, clock>>

\* Call k awaits User.findOneAndUpdate({_id}, {$inc, $push}) and answers 200.
RedeemFindOneAndUpdate(k) ==
    /\ last[k].pc = "loaded"
    /\ RewardOf(last[k].rewardId) # Unset
    /\ ~InsufficientPoints(last[k].loaded, RewardOf(last[k].rewardId)[1])
    /\ store' = [store EXCEPT
                   ![1].points = Inc(@, -RewardOf(last[k].rewardId)[1].points),
                   ![1].rewardHistory =
                       Append(@, [ rewardId |-> last[k].rewardId,
                                   type |-> RewardOf(last[k].rewardId)[1].type ])]
    /\ last' = [last EXCEPT ![k].pc = "done", ![k].code = 200]
    /\ UNCHANGED clock

RewardNext ==
    \/ \E rewardId \in RewardIdInputs : RedeemInvalid(rewardId)
    \/ \E rewardId \in RewardIdInputs : RedeemFindById(rewardId)
    \/ \E k \in 1..Len(last) : RedeemRefused(k)
    \/ \E k \in 1..Len(last) : RedeemFindOneAndUpdate(k)

RewardSpec == RewardInit /\ [][RewardNext]_vars

----------------------------------------------------------------------------
(* Calls of external services (utils/geolocation.ts): getLocationName,     *)
(* getTimeZone and getWeatherConditions fetch a URL, parse the body as     *)
(* JSON and read fields of it inside a try block whose catch returns a     *)
(* default. A JSON value is a record tagged with its type; Thrown is the   *)
(* outcome of an expression that threw.                                    *)

Undefined == [ t |-> "undefined" ]
Null == [ t |-> "null" ]
Thrown == [ t |-> "thrown" ]
Str(s) == [ t |-> "string", v |-> s ]
Obj(fields) == [ t |-> "object", v |-> fields ]

\* x.k: a TypeError when x is undefined or null, undefined when x has no k.
Member(x, k) ==
    IF x.t \in {"thrown", "undefined", "null"} THEN Thrown
    ELSE IF x.t = "object"
         THEN IF k \in DOMAIN x.v THEN x.v[k] ELSE Undefined
         ELSE Undefined

\* x[0]
First(x) ==
    IF x.t \in {"thrown", "undefined", "null"} THEN Thrown
    ELSE IF x.t = "array" /\ Len(x.v) > 0 THEN x.v[1] ELSE Undefined

\* a || b: a when it converts to true, else b
Or(a, b) ==
    LET truthy == CASE a.t = "string" -> a.v # ""
                    [] a.t = "number" -> a.v # 0
                    [] a.t \in {"object", "array"} -> TRUE
                    [] OTHER -> FALSE
    IN  IF a.t = "thrown" \/ truthy THEN a ELSE b

\* The bodies an external service answers with, parsed.
Bodies ==
    LET empty == Obj([ k \in {} |-> Null ])
        Arr(elements) == [ t |-> "array", v |-> elements ]
        addresses ==
            { Null, empty, Obj([ city |-> Str("Pune") ]),
              Obj([ town |-> Str("Wai") ]), Obj([ village |-> Str("Dhom") ]),
              Obj([ city |-> Str(""), town |-> Str("Wai") ]) }
        mains == { empty, Obj([ temp |-> [ t |-> "number", v |-> 31 ] ]) }
        weathers ==
            { Arr(<<>>), Arr(<<empty>>) }
                \cup { Arr(<<Obj([ main |-> Str(c) ])>>) :
                         c \in {"Clear", "Rain", "Heavy Rain", "Snow",
                                "Thunderstorm"} }
    IN  { Null, empty, Obj([ error |-> Str("Unable to geocode") ]),
          Obj([ zoneName |-> Str("") ]), Obj([ zoneName |-> Str("Asia/Kolkata") ]) }
            \cup { Obj([ address |-> a ]) : a \in addresses }
            \cup { Obj([ main |-> m ]) : m \in mains }
            \cup { Obj([ weather |-> w ]) : w \in weathers }
            \cup { Obj([ main |-> m, weather |-> w ]) : m \in mains, w \in weathers }

\* What fetch and response.json() come to: fetch rejects, json() rejects, or
\* the body parses to data.
Responses ==
    { [ kind |-> "network-error", data |-> Undefined ],
      [ kind |-> "not-json", data |-> Undefined ] }
        \cup { [ kind |-> "json", data |-> d ] : d \in Bodies }

\* await fetch(...); await response.json()
Fetched(response) == IF response.kind = "json" THEN response.data ELSE Thrown

\* data.zoneName
ZoneNameOf(data) == Member(data, "zoneName")

\* data.zoneName || "UTC"
ZoneNameOrUTC(data) == Or(Member(data, "zoneName"), Str("UTC"))

getLocationName(response) ==
    LET data == Fetched(response)
        address == Member(data, "address")
        returned == Or(Member(address, "city"),
                       Or(Member(address, "town"),
                          Or(Member(address, "village"),
                             Str("Unknown Location"))))
    IN  IF returned.t = "thrown" THEN Str("Unknown Location") ELSE returned

getTimeZone(response) ==
    LET returned == ZoneNameOrUTC(Fetched(response))
    IN  IF returned.t = "thrown" THEN Str("UTC") ELSE returned

\* ["Thunderstorm", "Heavy Rain", "Snow"].includes(conditions)
Unfriendly(conditions) ==
    conditions.t = "string" /\ conditions.v \in {"Thunderstorm", "Heavy Rain", "Snow"}

getWeatherConditions(response) ==
    LET data == Fetched(response)
        temperature == Member(Member(data, "main"), "temp")
        conditions == IF temperature.t = "thrown" THEN Thrown
                      ELSE Member(First(Member(data, "weather")), "main")
    IN  IF conditions.t = "thrown"
        THEN [ temperature |-> [ t |-> "number", v |-> 0 ], conditions |-> Str("Unknown"),
               isDeliveryFriendly |-> TRUE ]
        ELSE [ temperature |-> temperature, conditions |-> conditions,
               isDeliveryFriendly |-> ~Unfriendly(conditions) ]

\* A call of one of the three functions: the response its fetch will get, the
\* number of fetches made, and the value returned.
ApiCall(op, args, response, fetches, done, result) ==
    [ op |-> op, args |-> args, response |-> response, fetches |-> fetches,
      done |-> done, threw |-> FALSE, result |-> result ]

ApiInit ==
    /\ store = <<>>
    /\ clock = FirstInstant
    /\ \E op \in {"getLocationName", "getTimeZone", "getWeatherConditions"},
          point \in {Point(0, 0), Point(30, 30)}, response \in Responses :
            last = ApiCall(op, <<point.latitude, point.longitude>>, response,
                           0, FALSE, <<>>)

CallGetLocationName ==
    /\ last.op = "getLocationName" /\ ~last.done
    /\ last' = ApiCall(last.op, last.args, last.response, last.fetches + 1,
                       TRUE, <<getLocationName(last.response)>>)
    /\ UNCHANGED <<store, clock>>

CallGetTimeZone ==
    /\ last.op = "getTimeZone" /\ ~last.done
    /\ last' = ApiCall(last.op, last.args, last.response, last.fetches + 1,
                       TRUE, <<getTimeZone(last.response)>>)
    /\ UNCHANGED <<store, clock>>

CallGetWeatherConditions ==
    /\ last.op = "getWeatherConditions" /\ ~last.done
    /\ last' = ApiCall(last.op, last.args, last.response, last.fetches + 1,
                       TRUE, <<getWeatherConditions(last.response)>>)
    /\ UNCHANGED <<store, clock>>

ApiNext ==
    \/ CallGetLocationName
    \/ CallGetTimeZone
    \/ CallGetWeatherConditions

ApiSpec == ApiInit /\ [][ApiNext]_vars

----------------------------------------------------------------------------
(* The client's user store (client/src/store/slices/userSlice.ts): the     *)
(* store is the slice's state, the clock is Date.now(), and last is the    *)
(* list of the entries added since searchHistory was last emptied, oldest  *)
(* first.                                                                  *)

\* The payloads of setUser and addSearchHistory.
UserInputs == { <<>>, <<[ id |-> "u1" ]>> }
SearchInputs == { [ query |-> "tea", results |-> 3 ] }

initialState ==
    [ isAuthenticated |-> FALSE, user |-> <<>>,
      preferences |-> [ language |-> "en", notifications |-> TRUE,
                        locationSharing |-> FALSE, dataCollection |-> TRUE ],
      searchHistory |-> <<>> ]

\* addSearchHistory without the limit on the length.
addSearchHistoryUnlimited(state, payload, now) ==
    [state EXCEPT !.searchHistory =
        <<Spread(payload, [ timestamp |-> now ])>> \o @]

\* unshift puts the entry first; pop drops the last entry.
addSearchHistory(state, payload, now) ==
    LET unshifted == <<Spread(payload, [ timestamp |-> now ])>>
                         \o state.searchHistory
    IN  [state EXCEPT !.searchHistory =
            IF Len(unshifted) > HistoryLimit
            THEN SubSeq(unshifted, 1, Len(unshifted) - 1) ELSE unshifted]

clearSearchHistory(state) == [state EXCEPT !.searchHistory = <<>>]

deleteAccount(state) ==
    [state EXCEPT !.isAuthenticated = FALSE, !.user = <<>>,
                  !.preferences = initialState.preferences, !.searchHistory = <<>>]

setUser(state, payload) ==
    [state EXCEPT !.user = payload, !.isAuthenticated = payload # <<>>]

HistoryInit ==
    /\ store = initialState
    /\ clock = FirstInstant
    /\ last = <<>>

DispatchSetUser(payload) ==
    /\ store' = setUser(store, payload)
    /\ UNCHANGED <<clock, last>>

DispatchAddSearchHistory(payload) ==
    /\ Len(last) < MaxSearches
    /\ store' = addSearchHistory(store, payload, clock)
    /\ last' = Append(last, Spread(payload, [ timestamp |-> clock ]))
    /\ UNCHANGED clock

DispatchClearSearchHistory ==
    /\ store' = clearSearchHistory(store)
    /\ last' = <<>>
    /\ UNCHANGED clock

DispatchDeleteAccount ==
    /\ store' = deleteAccount(store)
    /\ last' = <<>>
    /\ UNCHANGED clock

\* A millisecond passes.
Millisecond ==
    /\ clock < FirstInstant + MaxMilliseconds
    /\ clock' = clock + 1
    /\ UNCHANGED <<store, last>>

HistoryNext ==
    \/ \E payload \in UserInputs : DispatchSetUser(payload)
    \/ \E payload \in SearchInputs : DispatchAddSearchHistory(payload)
    \/ DispatchClearSearchHistory
    \/ DispatchDeleteAccount
    \/ Millisecond

HistorySpec == HistoryInit /\ [][HistoryNext]_vars




----------------------------------------------------------------------------
(* Properties *)

Docs == 1..Len(store)

\* The collection holds a document of the pair.
HasDocument(coll, userId, type) ==
    \E i \in 1..Len(coll) : coll[i].userId = userId /\ coll[i].type = type

\* Date `later` is `months` calendar months after `date`: the same time of
\* day on the same day of that month, or on its last day when it is shorter.
MonthsAfter(date, later, months) ==
    LET month == MonthOf(date) + months
        lastDay == DaysInMonth(month) - 1
    IN  /\ MonthOf(later) = month
        /\ HourOfDay(later) = HourOfDay(date)
        /\ DayOfMonth(later) =
              IF DayOfMonth(date) < lastDay THEN DayOfMonth(date) ELSE lastDay

RouteOps == {"status", "create", "renew", "cancel", "trial-days", "history"}

\* C1: the store holds exactly one subscription document per (userId, type)
\* pair that has ever been created, never two.
C1_OneDocumentPerPair ==
    \A i, j \in Docs :
        (store[i].userId = store[j].userId /\ store[i].type = store[j].type)
            => i = j

\* C2: a successful renewSubscription changes one document of the pair and no
\* other; that document gets status active, isTrial false, endDate one month
\* after the renewal time, and its previous paymentHistory with exactly one
\* entry {amount, date = renewal time, transactionId, success} appended.
C2_RenewEffect ==
    [][ (last'.op = "renew" /\ last'.code = 200) =>
          /\ Len(store') = Len(store)
          /\ \E i \in Docs :
                /\ store[i].userId = last'.userId
                /\ store[i].type = last'.type
                /\ store'[i].status = "active"
                /\ store'[i].isTrial = FALSE
                /\ MonthsAfter(clock, store'[i].endDate, 1)
                /\ store'[i].paymentHistory =
                      store[i].paymentHistory \o
                        << [ amount |-> last'.amount,
                             date |-> clock,
                             transactionId |-> last'.transactionId,
                             status |-> "success" ] >>
                /\ \A j \in Docs : j # i => store'[j] = store[j]
      ]_vars

\* C2 witness: a renewal has just succeeded on a document that had been
\* renewed before.
C2_Witness ==
    /\ last.op = "renew"
    /\ last.code = 200
    /\ Len(last.body[1].paymentHistory) = 2
    /\ last.body[1].status = "active"

\* C3: at every clock value isSubscriptionActive(userId, type) is true exactly
\* when some document of the pair has status active or trial and an endDate
\* strictly after the current time, whatever the sweep has or has not done;
\* requireSubscription lets a request through on that answer.
C3_ActiveIffUnexpired ==
    /\ \A userId \in Users, type \in SubscriptionTypes :
          isSubscriptionActive(store, userId, type, clock) <=>
              \E i \in Docs :
                  /\ store[i].userId = userId
                  /\ store[i].type = type
                  /\ store[i].status \in {"active", "trial"}
                  /\ store[i].endDate > clock
    /\ last.op = "requireSubscription" =>
          (last.next <=>
              \E i \in Docs :
                  /\ store[i].userId = last.userId
                  /\ store[i].type = last.type
                  /\ store[i].status # "inactive"
                  /\ clock < store[i].endDate)

\* C3 witness: the check has just answered no for a document whose endDate is
\* in the past and whose stored status is still trial.
C3_Witness ==
    /\ last.op = "requireSubscription"
    /\ last.code = 403
    /\ \E i \in Docs :
          /\ store[i].userId = last.userId
          /\ store[i].type = last.type
          /\ store[i].status = "trial"
          /\ store[i].endDate < clock

\* C4: createSubscription(userId, type) adds a document with status trial,
\* isTrial true, endDate 3 months after startDate, trialEndDate equal to
\* endDate, autoRenew true and an empty paymentHistory.
C4_CreateYieldsTrial ==
    (last.op = "create" /\ last.code = 201) =>
        /\ Len(store) > 0
        /\ LET doc == store[Len(store)]
           IN  /\ last.body = <<doc>>
               /\ doc.userId = last.userId
               /\ doc.type = last.type
               /\ doc.status = "trial"
               /\ doc.isTrial = TRUE
               /\ doc.startDate = clock
               /\ MonthsAfter(doc.startDate, doc.endDate, 3)
               /\ doc.trialEndDate = <<doc.endDate>>
               /\ doc.autoRenew = TRUE
               /\ doc.paymentHistory = <<>>

\* C4 witness: a subscription has just been created on 30 November, so that
\* its endDate falls on the last day of February.
C4_Witness ==
    /\ last.op = "create"
    /\ last.code = 201
    /\ store[Len(store)].startDate = At(333, 12)
    /\ store[Len(store)].endDate = At(365 + 58, 12)

\* C5: one run of the sweep sets status to inactive for exactly the documents
\* whose endDate is before the current time and whose status is active or
\* trial, and leaves every other document and every other field unchanged.
C5_SweepFrame ==
    [][ last'.op = "sweep" =>
          /\ Len(store') = Len(store)
          /\ \A i \in Docs :
                /\ store'[i].status =
                      IF /\ store[i].endDate < clock
                         /\ store[i].status \in {"active", "trial"}
                      THEN "inactive"
                      ELSE store[i].status
                /\ [store'[i] EXCEPT !.status = store[i].status] = store[i]
      ]_vars

\* C5 witness: a sweep has just run over a collection in which one document is
\* swept to inactive and another one is not.
C5_Witness ==
    /\ last.op = "sweep"
    /\ \E i, j \in Docs :
          /\ store[i].status = "inactive"
          /\ store[i].paymentHistory = <<>>
          /\ store[j].status = "trial"
          /\ store[j].endDate >= clock

\* C6: a successful cancelSubscription sets autoRenew to false on one document
\* of the pair and changes nothing else, so isSubscriptionActive answers the
\* same before and after; and a cancelled document is not deactivated before
\* its endDate has passed.
C6_CancelFrame ==
    [][ /\ (last'.op = "cancel" /\ last'.code = 200) =>
              /\ \E i \in Docs :
                    /\ store[i].userId = last'.userId
                    /\ store[i].type = last'.type
                    /\ store' = [store EXCEPT ![i].autoRenew = FALSE]
              /\ \A userId \in Users, type \in SubscriptionTypes :
                    isSubscriptionActive(store', userId, type, clock')
                        = isSubscriptionActive(store, userId, type, clock)
        /\ \A i \in Docs :
              ( /\ store[i].autoRenew = FALSE
                /\ store[i].status \in {"active", "trial"}
                /\ store'[i].endDate > clock' )
                  => /\ store'[i].status \in {"active", "trial"}
                     /\ isSubscriptionActive(store', store[i].userId,
                                             store[i].type, clock')
      ]_vars

\* C6 witness: a cancel has just succeeded on a subscription that is still
\* active by isSubscriptionActive.
C6_Witness ==
    /\ last.op = "cancel"
    /\ last.code = 200
    /\ last.body[1].autoRenew = FALSE
    /\ isSubscriptionActive(store, last.userId, last.type, clock)

\* C7: with the sweep run again and again, every document whose endDate has
\* passed while its status is active or trial is eventually inactive, unless
\* it is renewed; and an inactive document stays inactive until a renewal.
C7_ExpiredEventuallyInactive ==
    /\ \A i \in 1..MaxWrites :
          ( /\ i \in Docs
            /\ store[i].status \in {"active", "trial"}
            /\ store[i].endDate < clock )
          ~> ( /\ i \in Docs
               /\ \/ store[i].status = "inactive"
                  \/ store[i].endDate >= clock )
    /\ [][ \A i \in Docs :
              (store[i].status = "inactive" /\ store'[i].status # "inactive")
                  => /\ last'.op = "renew"
                     /\ last'.code = 200
                     /\ store'[i].status = "active"
         ]_vars

\* C7 witness: the sweep has just run and a trial that expired unrenewed is
\* inactive.
C7_Witness ==
    /\ last.op = "sweep"
    /\ \E i \in Docs :
          /\ store[i].status = "inactive"
          /\ store[i].isTrial = TRUE
          /\ store[i].endDate < clock

\* C8: a status lookup, renew, cancel or trial-days request that reaches the
\* service for a pair with no document is answered 404.
C8_MissingAnswered404 ==
    ( /\ last.op \in {"status", "renew", "cancel", "trial-days"}
      /\ last.called
      /\ ~HasDocument(store, last.userId, last.type) )
        => last.code = 404

\* C9: a renewal whose amount is zero or negative, or whose transactionId is
\* empty, is rejected, and no such payment is ever recorded.
C9_InvalidRenewalRejected ==
    /\ ( /\ last.op = "renew"
         /\ (last.amount <= 0 \/ last.transactionId = "") )
          => last.code = 400
    /\ \A i \in Docs :
          \A k \in 1..Len(store[i].paymentHistory) :
              /\ store[i].paymentHistory[k].amount > 0
              /\ store[i].paymentHistory[k].transactionId # ""

\* C10: every subscription route answers 400 to a type other than seller or
\* buyer without calling SubscriptionService.
C10_TypeValidatedEverywhere ==
    (last.op \in RouteOps /\ last.type \notin {"seller", "buyer"})
        => (last.code = 400 /\ ~last.called)

\* The number getTrialDaysRemaining returns at `now` for the pair of document i.
TrialDaysAt(i, now) ==
    getTrialDaysRemaining(store, store[i].userId, store[i].type, now)

\* C11: for a subscription with isTrial true, getTrialDaysRemaining returns 0
\* when the current time is at or after trialEndDate and otherwise the least
\* whole number of days that covers trialEndDate - now; as the clock advances
\* the result never increases, and after a full day it is lower by exactly 1
\* until it is 0. GET /trial-days answers that number.
C11_TrialCountdown ==
    /\ [] ( \A i \in Docs : store[i].isTrial =>
              LET end == store[i].trialEndDate[1]
                  r == TrialDaysAt(i, clock)
              IN  /\ r # <<>>
                  /\ clock >= end => r[1] = 0
                  /\ clock < end =>
                        /\ r[1] * HoursPerDay >= end - clock
                        /\ (r[1] - 1) * HoursPerDay < end - clock )
    /\ [] ( (last.op = "trial-days" /\ last.code = 200) =>
              \A i \in Docs :
                  ( /\ store[i].isTrial
                    /\ store[i].userId = last.userId
                    /\ store[i].type = last.type )
                      => last.body = TrialDaysAt(i, clock) )
    /\ [][ \A i \in Docs : store[i].isTrial =>
              LET r == TrialDaysAt(i, clock)[1]
                  rNext == TrialDaysAt(i, clock')[1]
              IN  /\ clock' >= clock => rNext <= r
                  /\ clock' = clock + HoursPerDay =>
                        rNext = IF r = 0 THEN 0 ELSE r - 1
         ]_vars

\* C11 witness: GET /trial-days has just answered 1 with one hour of the trial
\* left.
C11_Witness ==
    /\ last.op = "trial-days"
    /\ last.body = <<1>>
    /\ store[1].isTrial
    /\ store[1].trialEndDate[1] - clock = 1

\* The number of times point p occurs in the list.
Occurrences(points, p) == Cardinality({ i \in DOMAIN points : points[i] = p })

\* The call of `op` has returned.
Returned(op) == last.op = op /\ last.done /\ ~last.threw

\* C13: calculateOptimalRoute returns a permutation of its input (every point
\* as many times as in the input, equal lengths), the empty list for the empty
\* list, and a list of 1 or 2 points in its original order.
C13_RouteIsPermutation ==
    Returned("calculateOptimalRoute") =>
        LET points == last.args[1]
            route == last.result[1]
        IN  /\ Len(route) = Len(points)
            /\ \A p \in RoutePoints : Occurrences(route, p) = Occurrences(points, p)
            /\ Len(points) = 0 => route = <<>>
            /\ Len(points) <= 2 => route = points

\* C13 witness: a list of four points with a repeated point has been
\* reordered.
C13_Witness ==
    /\ Returned("calculateOptimalRoute")
    /\ Len(last.args[1]) = 4
    /\ \E p \in RoutePoints : Occurrences(last.args[1], p) = 2
    /\ last.result[1] # last.args[1]

\* The distance between two points.
Between(p, q) == calculateDistance(p.latitude, p.longitude, q.latitude, q.longitude)

\* C14: for more than 2 points the route starts with the first input point,
\* and each later element is an unvisited point at minimum distance from the
\* element before it, the one of lowest input index among those at that
\* distance.
C14_NearestNeighbourOrder ==
    (Returned("calculateOptimalRoute") /\ Len(last.args[1]) > 2) =>
        LET points == last.args[1]
            route == last.result[1]
            n == Len(points)
        IN  /\ Len(route) = n
            /\ \E index \in [1..n -> 1..n] :
                  /\ index[1] = 1
                  /\ \A k \in 1..n : route[k] = points[index[k]]
                  /\ \A k \in 2..n :
                        LET visited == { index[j] : j \in 1..(k - 1) }
                        IN  /\ index[k] \notin visited
                            /\ \A u \in (1..n) \ visited :
                                  LET chosen == Between(route[k - 1], route[k])
                                      other == Between(route[k - 1], points[u])
                                  IN  /\ chosen <= other
                                      /\ chosen = other => index[k] <= u

\* C14 witness: the second point of the route was chosen among two different
\* points at the same distance from the first, and the first of the two in the
\* input is not the second point of the input.
C14_Witness ==
    /\ Returned("calculateOptimalRoute")
    /\ Len(last.args[1]) = 4
    /\ LET points == last.args[1]
           route == last.result[1]
       IN  /\ route[2] = points[3]
           /\ points[4] # points[3]
           /\ Between(points[1], points[3]) = Between(points[1], points[4])
           /\ Between(points[1], points[3]) < Between(points[1], points[2])

\* C15: calculateDeliveryCost returns 0 when distance <= freeRadius and
\* otherwise baseCost + 5 * (distance - freeRadius) rounded to the nearest
\* integer (baseCost 50 when left out), and the result is never negative.
C15_DeliveryCost ==
    Returned("calculateDeliveryCost") =>
        LET distance == last.args[1]
            freeRadius == last.args[2]
            baseCost == IF last.args[3] = <<>> THEN 50 ELSE last.args[3][1]
            cost == last.result[1]
        IN  /\ distance <= freeRadius => cost = 0
            /\ distance > freeRadius =>
                  LET exact == 10 * baseCost + 5 * (distance - freeRadius)
                  IN  /\ 10 * cost - exact <= 5
                      /\ exact - 10 * cost <= 5
            /\ cost >= 0

\* The latitude and the longitude of the point are in range.
ValidCoordinates(p) ==
    /\ -90 <= p.latitude /\ p.latitude <= 90
    /\ -180 <= p.longitude /\ p.longitude <= 180

\* C16: a latitude outside [-90, 90] or a longitude outside [-180, 180] handed
\* to the utility is rejected with an error instead of being used in a
\* distance computation, while an empty route yields the empty list or 0 and
\* no error.
C16_CoordinatesValidated ==
    /\ (last.op = "calculateDistance" /\ last.done) =>
          ( (\E k \in 1..2 : ~ValidCoordinates(last.args[k]))
                => (last.threw /\ last.result = <<>>) )
    /\ (last.op = "calculateOptimalRoute" /\ last.done /\ last.args[1] = <<>>) =>
          (~last.threw /\ last.result = << <<>> >>)
    /\ (last.op = "calculateRouteDistance" /\ last.done /\ last.args[1] = <<>>) =>
          (~last.threw /\ last.result = <<0>>)

\* C17: for valid coordinates a and b, calculateDistance(a, b) equals
\* calculateDistance(b, a), and calculateDistance(a, a) is 0.
C17_DistanceSymmetric ==
    ( /\ Returned("calculateDistance")
      /\ \A k \in 1..2 : ValidCoordinates(last.args[k]) ) =>
        LET a == last.args[1]
            b == last.args[2]
        IN  /\ last.result[1] = Between(b, a)
            /\ a = b => last.result[1] = 0

\* C17 witness: the distance between two points of different latitudes and
\* different longitudes, in different hemispheres, has been computed.
C17_Witness ==
    /\ Returned("calculateDistance")
    /\ last.args[1].latitude < 0
    /\ last.args[1].longitude < 0
    /\ last.args[2].latitude > 0
    /\ last.args[2].longitude > 0
    /\ last.result[1] > 0

\* C12: every seller returned by findNearbySellers has status active,
\* whatever the filters argument (one with a status field included), and
\* carries the distance calculateDistance gives from the query point to the
\* seller's coordinates.
C12_NearbySellersActive ==
    last.op \in {"nearby", "findNearbySellers"} =>
        LET center == last.args[1]
            sellers == last.result[1]
        IN  \A i \in 1..Len(sellers) :
                /\ sellers[i].status = "active"
                /\ sellers[i].distance = Between(center, sellers[i].coordinates)

\* C18: a document is created in status trial by createSubscription; after
\* that its status changes only to active, by a successful renewSubscription,
\* or from active or trial to inactive, by the sweep. No request of a user
\* sets a status to inactive, and nothing sets a status back to trial.
C18_StatusEdges ==
    [][ /\ Len(store') >= Len(store)
        /\ \A i \in Docs :
              store'[i].status # store[i].status =>
                  \/ /\ store'[i].status = "active"
                     /\ last'.op = "renew"
                     /\ last'.code = 200
                  \/ /\ store'[i].status = "inactive"
                     /\ store[i].status \in {"active", "trial"}
                     /\ last'.op = "sweep"
        /\ \A i \in (1..Len(store')) \ Docs :
              /\ store'[i].status = "trial"
              /\ last'.op = "create"
        /\ last'.op \in RouteOps \cup {"requireSubscription"} =>
              \A i \in Docs :
                  store'[i].status = "inactive" => store[i].status = "inactive"
      ]_vars

\* C18 witness: the sweep has just deactivated a subscription that had been
\* renewed, while another one is still in its trial.
C18_Witness ==
    /\ last.op = "sweep"
    /\ \E i, j \in Docs :
          /\ store[i].status = "inactive"
          /\ store[i].paymentHistory # <<>>
          /\ store[i].endDate < clock
          /\ store[j].status = "trial"

\* C20: the sweep is idempotent: a run that follows another run, with no
\* other operation and no clock advance in between, leaves the store as the
\* first run left it; and a run over a store in which every expired
\* subscription is already inactive changes nothing.
C20_SweepIdempotent ==
    [][ /\ (last.op = "sweep" /\ last'.op = "sweep" /\ clock' = clock)
              => store' = store
        /\ last'.op = "sweep" =>
              updateSubscriptionStatus(store', clock') = store'
        /\ ( /\ last'.op = "sweep"
             /\ \A i \in Docs :
                   store[i].endDate < clock => store[i].status = "inactive" )
              => store' = store
      ]_vars

\* C20 witness: the sweep has just run over a collection that holds an expired
\* subscription, now inactive, and a renewed one that has not expired.
C20_Witness ==
    /\ last.op = "sweep"
    /\ \E i, j \in Docs :
          /\ store[i].status = "inactive"
          /\ store[i].endDate < clock
          /\ store[j].status = "active"
          /\ store[j].endDate > clock

\* C19: however the sweep's update interleaves with the findOne and the save
\* of renewSubscription, the renewed document ends with status active, isTrial
\* false and endDate one month after the renewal time; it is never left
\* inactive with an endDate in the future.
C19_RenewSurvivesSweep ==
    last.pc = "saved" =>
        LET doc == store[last.position]
        IN  /\ doc.status = "active"
            /\ doc.isTrial = FALSE
            /\ MonthsAfter(clock, doc.endDate, 1)
            /\ ~(doc.status = "inactive" /\ doc.endDate > clock)

\* C21: renewSubscription never moves a subscription's endDate earlier: the
\* endDate after a successful renewal is at or after the endDate before it.
C21_RenewNeverShortens ==
    [][ (last'.op = "renew" /\ last'.code = 200) =>
            \A i \in Docs : store'[i].endDate >= store[i].endDate
      ]_vars

\* C22: the status and isTrial fields of every subscription agree: isTrial is
\* true exactly when status is trial.
C22_TrialFlagAgreesWithStatus ==
    \A i \in Docs : store[i].isTrial <=> store[i].status = "trial"

\* C23: once a subscription is cancelled its autoRenew stays false: no later
\* renewal or sweep sets it back to true; and whatever autoRenew is, the
\* endDate of a subscription is extended by a successful renewSubscription
\* only.
C23_CancelIsPermanent ==
    [][ \A i \in Docs :
            /\ store[i].autoRenew = FALSE => store'[i].autoRenew = FALSE
            /\ store'[i].endDate > store[i].endDate =>
                  (last'.op = "renew" /\ last'.code = 200)
      ]_vars

\* C23 witness: a cancelled subscription has just been renewed to an endDate
\* beyond its trial's, and is still cancelled.
C23_Witness ==
    /\ last.op = "renew"
    /\ last.code = 200
    /\ last.body[1].autoRenew = FALSE
    /\ last.body[1].status = "active"
    /\ last.body[1].endDate > last.body[1].trialEndDate[1]

\* C24: requireSubscription calls the next handler only when
\* isSubscriptionActive returned true for the request; when it returned false
\* the answer is 403 with price 79 for seller and 59 for buyer, when it threw
\* the answer is 500, and in neither case is the next handler called.
C24_GateOpensOnlyWhenActive ==
    last.op = "requireSubscription" =>
        LET active == isSubscriptionActive(store, last.userId, last.type, clock)
            threw == last.code = 500
        IN  /\ last.next => (active /\ ~threw /\ last.code = 0)
            /\ (~threw /\ active) => last.next
            /\ (~threw /\ ~active) =>
                  /\ last.code = 403
                  /\ ~last.next
                  /\ last.body = IF last.type = "seller" THEN <<79>> ELSE <<59>>
            /\ threw => ~last.next

\* C24 witness: a buyer whose subscription has expired but is still stored as
\* active has just been answered 403.
C24_Witness ==
    /\ last.op = "requireSubscription"
    /\ last.code = 403
    /\ last.type = "buyer"
    /\ store # <<>>
    /\ store[1].type = "buyer"
    /\ store[1].status = "active"
    /\ store[1].endDate < clock

RECURSIVE SumOfRatings(_)
\* The sum of the ratings of a list of reviews.
SumOfRatings(reviews) ==
    IF reviews = <<>> THEN 0 ELSE Head(reviews).rating + SumOfRatings(Tail(reviews))

\* C25: after any number of addReview calls on a seller, sequential or
\* concurrent, ratings.count is the number of entries of ratings.reviews and
\* ratings.average times ratings.count is the sum of their ratings.
C25_AggregateMatchesReviews ==
    (\A k \in 1..Len(last) : last[k].pc = "saved") =>
        LET ratings == store[1].ratings
        IN  /\ ratings.count = Len(ratings.reviews)
            /\ ratings.average[1] * ratings.count
                  = SumOfRatings(ratings.reviews) * ratings.average[2]


\* C26: a user's rewards.points is never negative, whatever the sequence or
\* interleaving of redemptions (a user whose points are unset included).
C26_BalanceNeverNegative ==
    \A i \in 1..Len(store) :
        store[i].points # Unset => store[i].points[1] >= 0


\* The list of points in the order given by index.
Reordered(points, index) == [ k \in 1..Len(points) |-> points[index[k]] ]

\* The orderings of n points that keep the first point first.
OrderingsFromFirst(n) ==
    { index \in [1..n -> 1..n] :
        index[1] = 1 /\ \A j, k \in 1..n : index[j] = index[k] => j = k }

C28_BoundingBoxClamped ==
    (last.op = "getBoundingBox" /\ last.done) =>
        /\ ~last.threw
        /\ LET box == last.result[1]
           IN  IF NearThePoles(last.args[1], last.args[3])
               THEN /\ box.minLat = -90 * Milli \/ box.maxLat = 90 * Milli
                    /\ box.minLat >= -90 * Milli /\ box.maxLat <= 90 * Milli
                    /\ box.minLon = -180 * Milli /\ box.maxLon = 180 * Milli
               ELSE /\ box.minLat < box.maxLat
                    /\ -90 * Milli < box.minLat /\ box.maxLat < 90 * Milli


\* The value is missing: reading it threw, or gave undefined.
Lacking(value) == value.t \in {"thrown", "undefined"}

\* fetch rejected (network error) or the body was not JSON.
NoBody(response) == response.kind # "json"

\* The parsed body lacks fields the function reads.
LacksExpectedFields(op, data) ==
    CASE op = "getLocationName" ->
            \A f \in {"city", "town", "village"} :
                Lacking(Member(Member(data, "address"), f))
      [] op = "getTimeZone" -> Lacking(Member(data, "zoneName"))
      [] op = "getWeatherConditions" ->
            \/ Lacking(Member(Member(data, "main"), "temp"))
            \/ Lacking(Member(First(Member(data, "weather")), "main"))

\* The parsed body lacks fields without which the function has no answer:
\* for the weather, the main object or the conditions.
LacksNeededFields(op, data) ==
    IF op = "getWeatherConditions"
    THEN \/ Member(data, "main").t \in {"thrown", "undefined", "null"}
         \/ Lacking(Member(First(Member(data, "weather")), "main"))
    ELSE LacksExpectedFields(op, data)

\* The call returned the neutral default of its function.
ReturnedDefault ==
    /\ ~last.threw
    /\ CASE last.op = "getLocationName" -> last.result[1] = Str("Unknown Location")
         [] last.op = "getTimeZone" -> last.result[1] = Str("UTC")
         [] last.op = "getWeatherConditions" -> last.result[1].isDeliveryFriendly

ApiOps == {"getLocationName", "getTimeZone", "getWeatherConditions"}

\* C29: a failure of an external call (network error, non-JSON body, or a
\* response lacking the expected fields) never propagates: the function
\* returns its default ("Unknown Location", "UTC", isDeliveryFriendly true)
\* after a single fetch.
C29_FailureGivesDefault ==
    (last.op \in ApiOps /\ last.done
        /\ (NoBody(last.response)
              \/ LacksExpectedFields(last.op, last.response.data))) =>
        ReturnedDefault /\ last.fetches = 1

\* C29 (amended): the default is returned, after a single fetch, on a network
\* error, a non-JSON body, or a response lacking the fields needed (for the
\* weather: the main object or weather[0].main); a weather response lacking
\* only main.temp is answered from its conditions, with temperature undefined.
C29_FailureGivesDefaultUnlessOnlyTemp ==
    (last.op \in ApiOps /\ last.done) =>
        /\ ~last.threw /\ last.fetches = 1
        /\ (NoBody(last.response)
              \/ LacksNeededFields(last.op, last.response.data)) => ReturnedDefault
        /\ (/\ last.op = "getWeatherConditions"
            /\ ~NoBody(last.response)
            /\ ~LacksNeededFields(last.op, last.response.data)) =>
               /\ last.result[1].temperature =
                      Member(Member(last.response.data, "main"), "temp")
               /\ last.result[1].isDeliveryFriendly =
                      ~Unfriendly(Member(First(Member(last.response.data, "weather")), "main"))

\* C29 witness: getTimeZone has returned "UTC" for a parsed body without a
\* zoneName.
C29_Witness ==
    /\ last.op = "getTimeZone" /\ last.done
    /\ last.response.kind = "json"
    /\ last.response.data.t = "object"
    /\ Lacking(Member(last.response.data, "zoneName"))
    /\ last.result[1] = Str("UTC")


\* The first n elements of the list reversed.
NewestFirst(added, n) == [ k \in 1..n |-> added[Len(added) + 1 - k] ]

\* C30: searchHistory holds at most 50 entries, newest first, and it is the
\* entries added since it was last emptied, or the 50 most recent of them
\* when more than 50 were added.
C30_HistoryIsLatestFifty ==
    LET history == store.searchHistory
    IN  /\ Len(history) <= HistoryLimit
        /\ \A i, j \in 1..Len(history) :
              i < j => history[i].timestamp >= history[j].timestamp
        /\ history = NewestFirst(last, IF Len(last) > HistoryLimit THEN HistoryLimit
                                                                  ELSE Len(last))

\* C30 witness: more than 50 entries were added, at different times, since
\* searchHistory was last emptied.
C30_Witness ==
    /\ Len(last) > HistoryLimit
    /\ Len(store.searchHistory) = HistoryLimit
    /\ last[1].timestamp < last[Len(last)].timestamp

====
